---- MODULE Spec2Model ----
(***************************************************************************)
(* A model of bin/analyze_brain_data.py: the per-query nearest-neighbour   *)
(* loop of main(), classify(), nearest_dist_to_each_type() and the         *)
(* contingency part of make_classification_histograms().                   *)
(*                                                                         *)
(* Conventions.  Python lists, numpy arrays are sequences; positions are   *)
(* 1-based here (Python's 0 is position 1).  A dict is a sequence of       *)
(* <<key, value>> pairs in insertion order, the order Python iterates in.  *)
(* Embeddings have one dimension and integer coordinates, so that          *)
(* scipy's euclidean cdist is exactly |q - d|.  A numpy quotient c / n is  *)
(* the pair <<c, n>>; it is nan when c = 0 and n = 0.  Plotting, file      *)
(* output and the embedding models are not modelled.                       *)
(***************************************************************************)
EXTENDS Integers, Sequences, FiniteSets, TLC

\* ---------------------------------------------------------------- bounds
MaxM == 3
MaxQ == 6
MaxG == 3
MaxE == 3

\* ------------------------------------------------------ program constants
Top5 == 5
Top100 == 100
Scale == 1000
Threshold == 70

Brain == "UBERON:0000955 brain"
Cortex == "UBERON:0001851 cortex"
BoneMarrow == "CL:0002092 bone marrow cell"
Osteocyte == "CL:0000137 osteocyte"

\* A database label that is none of the four target labels.
Neuron == "CL:0000540 neuron"

\* The labels in Python's string order (what sorted(), np.unique and
\* np.union1d compare by).
LabelOrder == <<Osteocyte, Neuron, BoneMarrow, Brain, Cortex>>

LabelRank(l) == CHOOSE r \in DOMAIN LabelOrder : LabelOrder[r] = l

\* The labels the databases of the model carry.
DbLabels == {Osteocyte, Brain}

\* The coordinates the embedded rows of the model take.
Coords == {0, 1, 2}

\* Query group names, as sequences of characters.
control_3m == <<"c","o","n","t","r","o","l","_","3","m">>
disease_3m == <<"d","i","s","e","a","s","e","_","3","m">>
sham_3m == <<"s","h","a","m","_","3","m">>
disease_vs_control == <<"d","i","s","e","a","s","e","_","v","s","_","c","o","n","t","r","o","l">>

QueryTypes == {control_3m, disease_3m, sham_3m, disease_vs_control}

\* The literals 'control' and 'disease'.
ControlStr == <<"c","o","n","t","r","o","l">>
DiseaseStr == <<"d","i","s","e","a","s","e">>

\* ------------------------------------------------------- Python built-ins
\* sub in s, for strings
Contains(s, sub) ==
    \E k \in 0..(Len(s) - Len(sub)) : \A j \in 1..Len(sub) : s[k + j] = sub[j]

\* s[:k-1]
TakeOneShort(s, k) == SubSeq(s, 1, IF Len(s) < k - 1 THEN Len(s) ELSE k - 1)

\* s[:k]
Take(s, k) == SubSeq(s, 1, IF Len(s) < k THEN Len(s) ELSE k)

\* x in s
In(x, s) == \E i \in DOMAIN s : s[i] = x

\* Counter(s)[x]
Count(s, x) == Cardinality({i \in DOMAIN s : s[i] = x})

\* s.index(x), 1-based; x must occur in s
ListIndex(s, x) == CHOOSE i \in DOMAIN s : s[i] = x /\ \A j \in 1..(i - 1) : s[j] # x

RECURSIVE SeqSum(_)
SeqSum(s) == IF s = <<>> THEN 0 ELSE s[1] + SeqSum(Tail(s))

\* Mean with the divisor fixed at 5 instead of the length
MeanOfFive(s) == <<SeqSum(s), Top5>>

\* np.mean(s): the quotient sum / len (nan for the empty array)
Mean(s) == <<SeqSum(s), Len(s)>>

IsNaN(f) == f[2] = 0

Abs(x) == IF x < 0 THEN -x ELSE x

RECURSIVE Repeat(_, _)
Repeat(x, n) == IF n = 0 THEN <<>> ELSE <<x>> \o Repeat(x, n - 1)

RECURSIVE SortedFrom(_, _)
SortedFrom(s, r) ==
    IF r > Len(LabelOrder) THEN <<>>
    ELSE Repeat(LabelOrder[r], Count(s, LabelOrder[r])) \o SortedFrom(s, r + 1)

\* sorted(s) for a list of labels
Sorted(s) == SortedFrom(s, 1)

\* np.unique(s): the distinct labels of s in ascending order
RECURSIVE UniqueFrom(_, _)
UniqueFrom(S, r) ==
    IF r > Len(LabelOrder) THEN <<>>
    ELSE (IF LabelOrder[r] \in S THEN <<LabelOrder[r]>> ELSE <<>>) \o UniqueFrom(S, r + 1)

Unique(s) == UniqueFrom({s[i] : i \in DOMAIN s}, 1)

\* np.union1d(a, b)
Union1d(a, b) == UniqueFrom({a[i] : i \in DOMAIN a} \cup {b[i] : i \in DOMAIN b}, 1)

\* itertools.groupby(t): the runs of equal elements as <<key, run>> pairs
RECURSIVE groupby(_)
groupby(t) ==
    IF t = <<>> THEN <<>>
    ELSE LET n == CHOOSE m \in 1..Len(t) :
                      /\ \A i \in 1..m : t[i] = t[1]
                      /\ (m < Len(t) => t[m + 1] # t[1])
         IN  <<<<t[1], SubSeq(t, 1, n)>>>> \o groupby(SubSeq(t, n + 1, Len(t)))

\* Python's comparison of the key tuples (count, -index)
TupleLess(a, b) == a[1] < b[1] \/ (a[1] = b[1] /\ a[2] < b[2])

\* max(items, key): the first item whose key no later item exceeds and
\* no earlier item equals or exceeds; items must be non-empty
MaxByKey(items, key) ==
    LET best == CHOOSE i \in DOMAIN items :
                    /\ \A j \in DOMAIN items : ~TupleLess(key[i], key[j])
                    /\ \A j \in 1..(i - 1) : TupleLess(key[j], key[i])
    IN  items[best]

\* The orderings of a finite set S: the sequences that list S once
Orderings(S) ==
    {p \in [1..Cardinality(S) -> S] : \A i, j \in 1..Cardinality(S) : p[i] = p[j] => i = j}

\* The index arrays that list, for each value of V in ascending order, the
\* positions of a that hold it, in any order
RECURSIVE ArgsortFrom(_, _)
ArgsortFrom(a, V) ==
    IF V = {} THEN {<<>>}
    ELSE IF Cardinality(V) = 1
    THEN Orderings({j \in DOMAIN a : a[j] \in V})
    ELSE LET mid == CHOOSE x \in V :
                        Cardinality({y \in V : y < x}) = Cardinality(V) \div 2
         IN  {h \o t : h \in ArgsortFrom(a, {y \in V : y < mid}),
                       t \in ArgsortFrom(a, {y \in V : y >= mid})}

\* argsort in descending order
RECURSIVE ArgsortDownFrom(_, _)
ArgsortDownFrom(a, V) ==
    IF V = {} THEN {<<>>}
    ELSE IF Cardinality(V) = 1
    THEN Orderings({j \in DOMAIN a : a[j] \in V})
    ELSE LET mid == CHOOSE x \in V :
                        Cardinality({y \in V : y < x}) = Cardinality(V) \div 2
         IN  {h \o t : h \in ArgsortDownFrom(a, {y \in V : y >= mid}),
                       t \in ArgsortDownFrom(a, {y \in V : y < mid})}

argsort_descending(a) == ArgsortDownFrom(a, {a[j] : j \in DOMAIN a})

\* np.argsort(a) with the default kind, which is not stable: every
\* permutation that puts a in ascending order is a possible outcome.
argsort(a) == ArgsortFrom(a, {a[j] : j \in DOMAIN a})

\* a[idx] for an index array idx
Gather(a, idx) == [k \in DOMAIN idx |-> a[idx[k]]]

\* a[::-1]
Reverse(a) == [k \in DOMAIN a |-> a[Len(a) + 1 - k]]

\* ------------------------------------------------------------------ dicts
Has(d, k) == \E i \in DOMAIN d : d[i][1] = k

Get(d, k) == d[CHOOSE i \in DOMAIN d : d[i][1] = k][2]

\* d[k] that starts from a new list every time
GetListFresh(d, k) == <<>>

\* d[k] of a defaultdict(list) that is then read
GetList(d, k) == IF Has(d, k) THEN Get(d, k) ELSE <<>>

\* d[k] = v
Put(d, k, v) ==
    IF Has(d, k) THEN [i \in DOMAIN d |-> IF d[i][1] = k THEN <<k, v>> ELSE d[i]]
    ELSE Append(d, <<k, v>>)

\* ------------------------------------------------------------- functions
\* distance.cdist(q, d, metric='euclidean') for one-dimensional embeddings
cdist(q, d) == [i \in DOMAIN q |-> [j \in DOMAIN d |-> Abs(q[i] - d[j])]]

\* nearest_dist_to_each_type without the `not in` test: later rows overwrite
Min2(a, b) == IF a < b THEN a ELSE b

\* The loop of nearest_dist_to_each_type over the pairs lo..hi of
\* zip(distances, labels), started from the dict d, with every pair
\* written to the dict
RECURSIVE OverwritingLoop(_, _, _, _, _)
OverwritingLoop(d, distances, labels, lo, hi) ==
    IF lo > hi THEN d
    ELSE IF lo = hi THEN Put(d, labels[lo], distances[lo])
    ELSE LET mid == (lo + hi) \div 2
             first == OverwritingLoop(d, distances, labels, lo, mid)
         IN  IF first = <<>>
             THEN OverwritingLoop(<<>>, distances, labels, mid + 1, hi)
             ELSE OverwritingLoop(first, distances, labels, mid + 1, hi)

\* The loop of nearest_dist_to_each_type over the pairs lo..hi of
\* zip(distances, labels), started from the dict d: the pairs lo..mid
\* first, then the pairs mid+1..hi
RECURSIVE NearestLoop(_, _, _, _, _)
NearestLoop(d, distances, labels, lo, hi) ==
    IF lo > hi THEN d
    ELSE IF lo = hi
    THEN IF Has(d, labels[lo]) THEN d
         ELSE Append(d, <<labels[lo], distances[lo]>>)
    ELSE LET mid == (lo + hi) \div 2
             first == NearestLoop(d, distances, labels, lo, mid)
         IN  IF first = <<>>
             THEN NearestLoop(<<>>, distances, labels, mid + 1, hi)
             ELSE NearestLoop(first, distances, labels, mid + 1, hi)

\* nearest_dist_to_each_type without the `not in` test: later rows overwrite
nearest_dist_overwriting(distances, labels) ==
    OverwritingLoop(<<>>, distances, labels, 1, Min2(Len(distances), Len(labels)))

nearest_dist_to_each_type(distances, labels) ==
    NearestLoop(<<>>, distances, labels, 1, Min2(Len(distances), Len(labels)))

\* classify that returns the label of the nearest neighbor
classify_nearest(sorted_neighbors) == sorted_neighbors[1]

\* classify whose key is the group size alone
classify_count_only(sorted_neighbors) ==
    LET groups == groupby(Sorted(sorted_neighbors))
        key == [i \in DOMAIN groups |-> <<Len(groups[i][2]), 0>>]
    IN  MaxByKey(groups, key)[1]

\* classify(sorted_neighbors) for a non-empty list (main() raises on an
\* empty database before it calls classify)
classify(sorted_neighbors) ==
    LET groups == groupby(Sorted(sorted_neighbors))
        key == [i \in DOMAIN groups |->
                   <<Len(groups[i][2]), -(ListIndex(sorted_neighbors, groups[i][1]) - 1)>>]
    IN  MaxByKey(groups, key)[1]

\* ------------------------------------------------------------------ state
VARIABLES
    query_model,      \* embedded query rows (coordinates)
    query_labels,     \* Query Group name of each query row
    db_model,         \* embedded database rows (coordinates)
    db_labels,        \* label of each database row
    db_cell_ids,      \* identifier of each database row
    pc,               \* "loop", "histograms", "enriched", "done" or "error"
    err,              \* the exception that ended the run, or "none"
    index,            \* number of query rows the loop of main() has processed
    sorted_distances_indices, sorted_distances, sorted_labels, sorted_cell_ids,
    min_distances,    \* the locals of the last loop iteration
    top_5_nearest_cells, brain_cortex_counts, nearest_dist_per_type_dict,
    top_5_types_dict, avg_nearest_5_distances_dict, classifications,
    overall_classifications,
    control_clfs, disease_clfs, merged_db_types,
    control_fracs, disease_fracs, binom_inputs, contingency_table,
    merged_db_types2, control_fracs2, disease_fracs2, binom_inputs2,
    contingency_table2,
    enriched

inputs == <<query_model, query_labels, db_model, db_labels, db_cell_ids>>

locals ==
    <<sorted_distances_indices, sorted_distances, sorted_labels, sorted_cell_ids,
      min_distances>>

accumulators ==
    <<brain_cortex_counts, nearest_dist_per_type_dict, top_5_types_dict,
      avg_nearest_5_distances_dict, classifications, overall_classifications>>

histograms ==
    <<control_clfs, disease_clfs, merged_db_types, control_fracs, disease_fracs,
      binom_inputs, contingency_table, merged_db_types2, control_fracs2,
      disease_fracs2, binom_inputs2, contingency_table2>>

vars ==
    <<inputs, pc, err, index, locals, top_5_nearest_cells, accumulators,
      histograms, enriched>>

\* query_data_container.rpkm_df.index[index]: the sample identifier of row i
SampleId(i) == i

\* The identifier of database row j
CellId(j) == <<"cell", j>>

\* dist_model of main()
dist_model == cdist(query_model, db_model)

\* The state main() is in when its loop starts, for given inputs.
Start(qm, ql, dm, dl) ==
    /\ query_model = qm
    /\ query_labels = ql
    /\ db_model = dm
    /\ db_labels = dl
    /\ db_cell_ids = [j \in DOMAIN dm |-> CellId(j)]
    /\ pc = "loop"
    /\ err = "none"
    /\ index = 0
    /\ sorted_distances_indices = <<>>
    /\ sorted_distances = <<>>
    /\ sorted_labels = <<>>
    /\ sorted_cell_ids = <<>>
    /\ min_distances = <<>>
    /\ top_5_nearest_cells = <<>>
    /\ brain_cortex_counts = <<>>
    /\ nearest_dist_per_type_dict = <<>>
    /\ top_5_types_dict = <<>>
    /\ avg_nearest_5_distances_dict = <<>>
    /\ classifications = <<>>
    /\ overall_classifications = <<>>
    /\ control_clfs = <<>>
    /\ disease_clfs = <<>>
    /\ merged_db_types = <<>>
    /\ control_fracs = <<>>
    /\ disease_fracs = <<>>
    /\ binom_inputs = <<>>
    /\ contingency_table = <<>>
    /\ merged_db_types2 = <<>>
    /\ control_fracs2 = <<>>
    /\ disease_fracs2 = <<>>
    /\ binom_inputs2 = <<>>
    /\ contingency_table2 = <<>>
    /\ enriched = <<>>

\* One query row of a control group or of no coarse group against any
\* database of 0..MaxM rows
\* (no row of the loop depends on another; runs of several query rows are
\* InitGroups and InitContingency below).
InitSmall ==
    \E m \in 0..MaxM :
        \E q \in Coords, query_type \in {control_3m, sham_3m},
           dm \in [1..m -> Coords], dl \in [1..m -> DbLabels] :
            Start(<<q>>, <<query_type>>, dm, dl)

\* One query row at 0 against a database of 99, 100 or 101 rows at the
\* distinct coordinates 1..m, stored nearest first or farthest first; the k
\* nearest rows carry one label and the other rows the other label.
InitLarge ==
    \E m \in {Top100 - 1, Top100, Top100 + 1} :
        \E k \in 0..m, near \in DbLabels, farthest_first \in BOOLEAN,
           query_type \in {control_3m, sham_3m} :
            LET far == CHOOSE l \in DbLabels : l # near
                dm == [j \in 1..m |-> IF farthest_first THEN m + 1 - j ELSE j]
            IN  Start(<<0>>, <<query_type>>, dm,
                      [j \in 1..m |-> IF dm[j] <= k THEN near ELSE far])

Init == InitSmall \/ InitLarge

\* d[outer][db_type].append(min_dist) for every item of min_dists
RECURSIVE AppendNearest(_, _, _)
AppendNearest(d, outer, min_dists) ==
    IF min_dists = <<>> THEN d
    ELSE LET before == AppendNearest(d, outer, SubSeq(min_dists, 1, Len(min_dists) - 1))
             item == min_dists[Len(min_dists)]
             inner == GetList(before, outer)
         IN  Put(before, outer,
                 Put(inner, item[1], Append(GetList(inner, item[1]), item[2])))

\* One iteration of the loop of main() over the rows of dist_model.
LoopStep ==
    /\ pc = "loop"
    /\ index < Len(query_model)
    /\ LET i == index + 1
           distances_to_query == dist_model[i]
           query_label == query_labels[i]
       IN  \E idx \in argsort(distances_to_query) :
             LET sd == Gather(distances_to_query, idx)
                 sl == Gather(db_labels, idx)
                 sc == Gather(db_cell_ids, idx)
                 top_100_l == Take(sl, Top100)
                 md == nearest_dist_to_each_type(sd, sl)
                 classified_label == classify(top_100_l)
             IN  /\ sorted_distances_indices' = idx
                 /\ sorted_distances' = sd
                 /\ sorted_labels' = sl
                 /\ sorted_cell_ids' = sc
                 /\ top_5_nearest_cells' = Put(top_5_nearest_cells, SampleId(i), Take(sc, Top5))
                 /\ IF sl = <<>>
                    THEN \* sorted_labels[0] raises IndexError
                         /\ pc' = "error"
                         /\ err' = "IndexError"
                         /\ UNCHANGED <<index, min_distances, accumulators>>
                    ELSE /\ brain_cortex_counts' =
                               Append(brain_cortex_counts,
                                      <<SampleId(i),
                                        Count(top_100_l, Brain) + Count(top_100_l, Cortex),
                                        Count(top_100_l, BoneMarrow) + Count(top_100_l, Osteocyte)>>)
                         /\ min_distances' = md
                         /\ nearest_dist_per_type_dict' =
                               AppendNearest(nearest_dist_per_type_dict, query_label, md)
                         /\ top_5_types_dict' =
                               Put(top_5_types_dict, query_label,
                                   GetList(top_5_types_dict, query_label) \o Take(sl, Top5))
                         /\ avg_nearest_5_distances_dict' =
                               Put(avg_nearest_5_distances_dict, query_label,
                                   Append(GetList(avg_nearest_5_distances_dict, query_label),
                                          Mean(Take(sd, Top5))))
                         /\ overall_classifications' =
                               Append(overall_classifications, classified_label)
                         /\ classifications' =
                               Put(classifications, query_label,
                                   Append(GetList(classifications, query_label),
                                          classified_label))
                         /\ index' = i
                         /\ pc' = IF i = Len(query_model) THEN "histograms" ELSE "loop"
                         /\ err' = "none"
    /\ UNCHANGED <<inputs, histograms, enriched>>

\* coarse_clfs with `if` in place of `elif`
RECURSIVE coarse_clfs_two_ifs(_)
coarse_clfs_two_ifs(d) ==
    IF d = <<>> THEN <<<<>>, <<>>>>
    ELSE LET before == coarse_clfs_two_ifs(SubSeq(d, 1, Len(d) - 1))
             query_type == d[Len(d)][1]
             clfs == d[Len(d)][2]
         IN  <<before[1] \o (IF Contains(query_type, ControlStr) THEN clfs ELSE <<>>),
               before[2] \o (IF Contains(query_type, DiseaseStr) THEN clfs ELSE <<>>)>>

\* coarse_clfs with assignment in place of extend
RECURSIVE coarse_clfs_assign(_)
coarse_clfs_assign(d) ==
    IF d = <<>> THEN <<<<>>, <<>>>>
    ELSE LET before == coarse_clfs_assign(SubSeq(d, 1, Len(d) - 1))
             query_type == d[Len(d)][1]
             clfs == d[Len(d)][2]
         IN  IF Contains(query_type, ControlStr) THEN <<clfs, before[2]>>
             ELSE IF Contains(query_type, DiseaseStr) THEN <<before[1], clfs>>
             ELSE before

\* The loop of make_classification_histograms() over classifications.items():
\* the pair <<control_clfs, disease_clfs>>.
RECURSIVE coarse_clfs(_)
coarse_clfs(d) ==
    IF d = <<>> THEN <<<<>>, <<>>>>
    ELSE LET before == coarse_clfs(SubSeq(d, 1, Len(d) - 1))
             query_type == d[Len(d)][1]
             clfs == d[Len(d)][2]
         IN  IF Contains(query_type, ControlStr) THEN <<before[1] \o clfs, before[2]>>
             ELSE IF Contains(query_type, DiseaseStr) THEN <<before[1], before[2] \o clfs>>
             ELSE before

\* The count loops over merged_db_types
counts_of(types, clfs) == [c \in DOMAIN types |-> Count(clfs, types[c])]

\* fracs_of dividing by the number of columns
fracs_of_columns(counts, total) == [c \in DOMAIN counts |-> <<counts[c], Len(counts)>>]

\* counts / total, elementwise
fracs_of(counts, total) == [c \in DOMAIN counts |-> <<counts[c], total>>]

\* floor_scaled rounding to nearest
round_scaled(height) == (2 * Scale * height[1] + height[2]) \div (2 * height[2])

\* math.floor(1000 * height); the caller excludes nan
floor_scaled(height) == (Scale * height[1]) \div height[2]

\* The arguments (count1, count1 + count2) of binom_test for each pair of bars
binom_args(heights1, heights2) ==
    [c \in DOMAIN heights1 |->
        <<floor_scaled(heights1[c]),
          floor_scaled(heights1[c]) + floor_scaled(heights2[c])>>]

\* The columns of the table that hold no zero, in ascending order
keep_columns(table) ==
    LET n == Len(table[1])
        S == {c \in 1..n : table[1][c] # 0 /\ table[2][c] # 0}
        RECURSIVE Asc(_)
        Asc(c) == IF c > n THEN <<>>
                  ELSE (IF c \in S THEN <<c>> ELSE <<>>) \o Asc(c + 1)
    IN  Asc(1)

\* make_classification_histograms(overall_classifications, classifications, ..)
MakeClassificationHistograms ==
    /\ pc = "histograms"
    /\ LET coarse == coarse_clfs(classifications)
           merged == Union1d(Unique(coarse[1]), Unique(coarse[2]))
           c_counts == counts_of(merged, coarse[1])
           d_counts == counts_of(merged, coarse[2])
           c_fracs == fracs_of(c_counts, Len(coarse[1]))
       IN  \* control_fracs of one list has one denominator: argsort orders
           \* it as it orders the counts, and leaves an all-nan array in any order
           \E asc \in argsort(c_counts) :
             LET labels_sort_idx == Reverse(asc)
                 types1 == Gather(merged, labels_sort_idx)
                 cc1 == Gather(c_counts, labels_sort_idx)
                 dc1 == Gather(d_counts, labels_sort_idx)
                 cf1 == fracs_of(cc1, Len(coarse[1]))
                 df1 == fracs_of(dc1, Len(coarse[2]))
                 table1 == <<cc1, dc1>>
                 keep == keep_columns(table1)
                 cc2 == Gather(cc1, keep)
                 dc2 == Gather(dc1, keep)
                 cf2 == fracs_of(cc2, SeqSum(cc2))
                 df2 == fracs_of(dc2, SeqSum(dc2))
             IN  /\ control_clfs' = coarse[1]
                 /\ disease_clfs' = coarse[2]
                 /\ merged_db_types' = types1
                 /\ control_fracs' = cf1
                 /\ disease_fracs' = df1
                 /\ IF \E c \in DOMAIN cf1 : IsNaN(cf1[c]) \/ IsNaN(df1[c])
                    THEN \* math.floor(1000 * nan) raises ValueError
                         /\ pc' = "error"
                         /\ err' = "ValueError"
                         /\ UNCHANGED <<binom_inputs, contingency_table, merged_db_types2,
                                        control_fracs2, disease_fracs2, binom_inputs2,
                                        contingency_table2>>
                    ELSE /\ binom_inputs' = binom_args(cf1, df1)
                         /\ contingency_table' = table1
                         /\ merged_db_types2' = Gather(types1, keep)
                         /\ control_fracs2' = cf2
                         /\ disease_fracs2' = df2
                         /\ binom_inputs2' = binom_args(cf2, df2)
                         /\ contingency_table2' = <<cc2, dc2>>
                         /\ pc' = "enriched"
                         /\ err' = "none"
    /\ UNCHANGED <<inputs, index, locals, top_5_nearest_cells, accumulators, enriched>>

\* The identifiers enriched_brain_cortex_plot_and_data() keeps, and whether
\* writing a kept item's five nearest cells reads past its list
\* The selection with `>=` in place of `>`
RECURSIVE keep_of_at_least(_, _)
keep_of_at_least(count_list, threshold) ==
    IF count_list = <<>> THEN <<>>
    ELSE LET before == keep_of_at_least(SubSeq(count_list, 1, Len(count_list) - 1),
                                        threshold)
             item == count_list[Len(count_list)]
         IN  IF item[2] >= threshold THEN Append(before, item[1]) ELSE before

RECURSIVE keep_of(_, _)
keep_of(count_list, threshold) ==
    IF count_list = <<>> THEN <<>>
    ELSE LET before == keep_of(SubSeq(count_list, 1, Len(count_list) - 1), threshold)
             item == count_list[Len(count_list)]
         IN  IF item[2] > threshold THEN Append(before, item[1]) ELSE before

\* enriched = enriched_brain_cortex_plot_and_data(brain_cortex_counts,
\*                top_5_nearest_cells, 70, working_dir)
EnrichedBrainCortex ==
    /\ pc = "enriched"
    /\ LET keep == keep_of(brain_cortex_counts, Threshold)
           short == {k \in DOMAIN keep : Len(Get(top_5_nearest_cells, keep[k])) < Top5}
       IN  IF short # {}
           THEN \* top_5_nearest_cells[item[0]][4] raises IndexError
                /\ enriched' = <<>>
                /\ pc' = "error"
                /\ err' = "IndexError"
           ELSE /\ enriched' = keep
                /\ pc' = "done"
                /\ err' = "none"
    /\ UNCHANGED <<inputs, index, locals, top_5_nearest_cells, accumulators, histograms>>

Next == LoopStep \/ MakeClassificationHistograms \/ EnrichedBrainCortex

Spec == Init /\ [][Next]_vars

\* The same run on a fixed database of two cells, an osteocyte at 0 and a
\* brain cell at 1, with nc control_3m rows followed by nd disease_3m rows,
\* 1 <= nc + nd <= MaxQ, each sitting on one of the two cells: a row at 0 is
\* classified as osteocyte and a row at 1 as brain, so every pair of control
\* and disease classification lists of total length 1..MaxQ arises.
InitContingency ==
    \E nc \in 0..MaxQ, nd \in 0..MaxQ :
        /\ nc + nd \in 1..MaxQ
        /\ \E qm \in [1..(nc + nd) -> {0, 1}] :
              Start(qm, [i \in 1..(nc + nd) |-> IF i <= nc THEN control_3m ELSE disease_3m],
                    <<0, 1>>, <<Osteocyte, Brain>>)

SpecContingency == InitContingency /\ [][Next]_vars

\* The same run on that database with 1..MaxG query rows of any group name.
InitGroups ==
    \E n \in 1..MaxG :
        \E qm \in [1..n -> {0, 1}], ql \in [1..n -> QueryTypes] :
            Start(qm, ql, <<0, 1>>, <<Osteocyte, Brain>>)

SpecGroups == InitGroups /\ [][Next]_vars

\* The offsets of the query positions of InitEnriched: a query of offset o
\* has the database rows o + 1 .. o + 100 as its 100 nearest neighbors.
Offsets == {0, 9, 15}

\* The largest offset
MaxOffset == CHOOSE o \in Offsets : \A o2 \in Offsets : o2 <= o

\* The same run with 1..MaxE sham_3m query rows against a database of m
\* rows, m just below 5, at and just above the threshold, and large enough
\* for every window of 100.  Row j lies at coordinate 4j and a query of
\* offset o at 4(o + 50) + 1, so that a query has no two rows at one
\* distance.  The first k rows carry brain and cortex in turn, the other
\* rows all osteocyte or all neuron: a query of offset o counts
\* min(k, o + 100) - o brain or cortex cells among its 100 nearest neighbors
\* when k >= o.  k is 0, m, or puts an offset at the threshold or one above.
InitEnriched ==
    \E m \in {Top5 - 1, Threshold, Threshold + 1, Top100 + MaxOffset} :
        \E k \in {0, m} \cup {k2 \in {Threshold + o + e : o \in Offsets, e \in {0, 1}} : k2 <= m},
           rest \in {Osteocyte, Neuron}, n \in 1..MaxE :
            \E os \in [1..n -> Offsets] :
                Start([i \in 1..n |-> 4 * (os[i] + (Top100 \div 2)) + 1],
                      [i \in 1..n |-> sham_3m],
                      [j \in 1..m |-> 4 * j],
                      [j \in 1..m |-> IF j > k THEN rest
                                      ELSE IF j % 2 = 1 THEN Brain ELSE Cortex])

SpecEnriched == InitEnriched /\ [][Next]_vars

\* ------------------------------------------------------- claim vocabulary
\* The permutations of 1..n
Permutations1(n) == {p \in [1..n -> 1..n] : \A i, j \in 1..n : p[i] = p[j] => i = j}

\* The loop has processed query row `index` and its locals are that row's.
RowDone == index >= 1

\* The loop itself raised (an error of a later stage leaves index = N).
LoopRaised == pc = "error" /\ index < Len(query_model)

\* make_classification_histograms() has run, to its end or to an exception.
HistRan == index = Len(query_model) /\ pc \in {"enriched", "done", "error"}

\* The labels of the min(100, M) database rows nearest to the query row, in
\* rank order.
Window == Take(Gather(db_labels, sorted_distances_indices), Top100)

\* The classification of the last processed query row.
Classified == overall_classifications[index]

\* Two lists hold the same elements with the same multiplicities.
SameBag(a, b) == \A x \in {a[i] : i \in DOMAIN a} \cup {b[i] : i \in DOMAIN b} :
                     Count(a, x) = Count(b, x)

\* The classifications of the query rows 1..n that are in the set R, in row
\* order.
RECURSIVE ClfsOfRows(_, _)
ClfsOfRows(n, R) ==
    IF n = 0 THEN <<>>
    ELSE ClfsOfRows(n - 1, R) \o
         (IF n \in R THEN <<overall_classifications[n]>> ELSE <<>>)

\* C1: after a query row with a non-empty neighbor window is processed, its
\* classification occurs in the window and no label of the window occurs
\* there more often.
C1_MajorityInWindow ==
    (RowDone /\ Window # <<>>) =>
        /\ In(Classified, Window)
        /\ \A l \in DbLabels : Count(Window, Classified) >= Count(Window, l)

\* A row of a database of more than 100 rows whose nearest neighbor carries
\* a label that is outvoted in the window of 100, and whose classification
\* ties in the window with the other label but is the rarer one in the whole
\* database.
C1_Witness ==
    /\ RowDone
    /\ Len(db_model) > Top100
    /\ Len(Window) = Top100
    /\ \E l \in DbLabels :
          /\ l # Classified
          /\ Count(Window, l) <= Count(Window, Classified)
          /\ Count(db_labels, l) > Count(db_labels, Classified)

\* C2: when several labels tie for the highest count in the window, the
\* classification is the tied label whose first occurrence is nearest to
\* the query, whatever the alphabetical order of the labels.
C2_TieEarliestRank ==
    RowDone =>
        \A l \in DbLabels :
            (In(l, Window) /\ Count(Window, l) = Count(Window, Classified)) =>
                ListIndex(Window, Classified) <= ListIndex(Window, l)

\* A tie won by the label that is alphabetically last.
C2_Witness ==
    /\ RowDone
    /\ Window = <<Brain, Osteocyte>>
    /\ Classified = Brain
    /\ LabelRank(Osteocyte) < LabelRank(Brain)

\* The sorted sequences are the database columns taken through one
\* permutation of all database rows that puts the distances in ascending
\* order.
RankedAscending ==
    /\ sorted_distances_indices \in Permutations1(Len(db_model))
    /\ \A k \in 1..(Len(db_model) - 1) : sorted_distances[k] <= sorted_distances[k + 1]
    /\ \A k \in 1..Len(db_model) :
          /\ sorted_distances[k] = dist_model[index][sorted_distances_indices[k]]
          /\ sorted_labels[k] = db_labels[sorted_distances_indices[k]]
          /\ sorted_cell_ids[k] = db_cell_ids[sorted_distances_indices[k]]

\* Rows at equal distance keep their database order.
TiesInIndexOrder ==
    \A k \in 1..(Len(db_model) - 1) :
        sorted_distances[k] = sorted_distances[k + 1] =>
            sorted_distances_indices[k] < sorted_distances_indices[k + 1]

\* C3 as stated: the ranking is ascending, aligned, and stable.
C3_StableRanking == RowDone => (RankedAscending /\ TiesInIndexOrder)

\* C3 amended: the ranking is a permutation of all database rows in
\* ascending order of distance and the three sorted sequences are indexed by
\* it; the order of rows at equal distance is not determined.
C3_AscendingAlignedRanking == RowDone => RankedAscending

\* A ranking with three rows, two of them tied and taken out of database
\* order behind a nearer row.
C3_Witness ==
    /\ RowDone
    /\ Len(db_model) = 3
    /\ sorted_distances[1] < sorted_distances[2]
    /\ sorted_distances[2] = sorted_distances[3]
    /\ sorted_distances_indices[2] > sorted_distances_indices[3]

\* C4: the keys of the nearest-distance-per-label mapping of a processed row
\* are exactly the distinct database labels, each once, and each value is
\* the least distance from the row to a database row of that label.
C4_NearestPerLabel ==
    RowDone =>
        /\ {min_distances[k][1] : k \in DOMAIN min_distances} =
               {db_labels[j] : j \in DOMAIN db_labels}
        /\ \A k, k2 \in DOMAIN min_distances :
               min_distances[k][1] = min_distances[k2][1] => k = k2
        /\ \A k \in DOMAIN min_distances :
              LET of_label == {j \in DOMAIN db_labels : db_labels[j] = min_distances[k][1]}
              IN  /\ \E j \in of_label : dist_model[index][j] = min_distances[k][2]
                  /\ \A j \in of_label : dist_model[index][j] >= min_distances[k][2]

\* Two labels, one of them on rows at different distances.
C4_Witness ==
    /\ RowDone
    /\ Len(min_distances) = 2
    /\ \E j, j2 \in DOMAIN db_labels :
          /\ db_labels[j] = db_labels[j2]
          /\ dist_model[index][j] < dist_model[index][j2]
          /\ \E k \in DOMAIN min_distances : min_distances[k] = <<db_labels[j], dist_model[index][j]>>

\* The per-query statistics of the last processed row are taken over all
\* available neighbors: the top-5 ones over the min(5, M) nearest rows, the
\* top-100 ones over the min(100, M) nearest rows.
StatsOverAllNeighbors ==
    LET M == Len(db_model)
        k5 == IF M < Top5 THEN M ELSE Top5
        g == query_labels[index]
        top5 == Get(top_5_types_dict, g)
        avgs == Get(avg_nearest_5_distances_dict, g)
        ranked_labels == Gather(db_labels, sorted_distances_indices)
        ranked_dists == Gather(dist_model[index], sorted_distances_indices)
    IN  /\ SubSeq(top5, Len(top5) - k5 + 1, Len(top5)) = SubSeq(ranked_labels, 1, k5)
        /\ avgs[Len(avgs)] = <<SeqSum(SubSeq(ranked_dists, 1, k5)), k5>>
        /\ In(Classified, Window)
        /\ \A l \in DbLabels : Count(Window, Classified) >= Count(Window, l)
        /\ brain_cortex_counts[index] =
              <<SampleId(index),
                Count(Window, Brain) + Count(Window, Cortex),
                Count(Window, BoneMarrow) + Count(Window, Osteocyte)>>
        /\ (M < Top5 => Len(Get(top_5_nearest_cells, SampleId(index))) = M)
        /\ (M < Top100 => Len(Window) = M)

\* C5 as stated: with fewer than 100 (or 5) database rows the loop raises
\* no error and computes each statistic over all available neighbors.
C5_SmallDatabaseNoError ==
    Len(db_model) < Top100 =>
        /\ ~LoopRaised
        /\ (pc # "loop" => RowDone)
        /\ (RowDone => StatsOverAllNeighbors)

\* C5 amended: with at least one and fewer than 100 (or 5) database rows
\* the loop raises no error and computes each statistic over all available
\* neighbors; with an empty database the first iteration raises IndexError.
C5_NonEmptySmallDatabaseNoError ==
    /\ (Len(db_model) >= 1 /\ Len(db_model) < Top100) =>
          /\ ~LoopRaised
          /\ (pc # "loop" => RowDone)
          /\ (RowDone => StatsOverAllNeighbors)
    /\ (Len(db_model) = 0 /\ pc # "loop") => (LoopRaised /\ err = "IndexError")

\* A processed row of a three-row database with both labels.
C5_Witness ==
    /\ RowDone
    /\ Len(db_model) = 3
    /\ Len(min_distances) = 2
    /\ Len(Get(top_5_types_dict, query_labels[index])) = 3

\* The query rows whose group name contains 'control', 'disease'.
ControlRows == {i \in DOMAIN query_labels : Contains(query_labels[i], ControlStr)}

DiseaseRows == {i \in DOMAIN query_labels : Contains(query_labels[i], DiseaseStr)}

\* make_classification_histograms() ran to its end.
HistCompleted == HistRan /\ err # "ValueError"

SumsToOne(fr) ==
    /\ fr # <<>>
    /\ \A c \in DOMAIN fr : fr[c][2] = fr[1][2]
    /\ fr[1][2] # 0
    /\ SeqSum([c \in DOMAIN fr |-> fr[c][1]]) = fr[1][2]

\* C8 as stated, for the runs in which the analyzer produces both tables:
\* the control and the disease fractions each sum to 1, in the raw table and
\* in the table without zero-count columns.
C8_FractionsSumToOne ==
    HistCompleted =>
        /\ SumsToOne(control_fracs) /\ SumsToOne(disease_fracs)
        /\ SumsToOne(control_fracs2) /\ SumsToOne(disease_fracs2)

\* C8 amended: in the raw table the fractions of a group whose
\* classification list is not empty sum to 1 (those of an empty list are all
\* nan); in the second table, which is computed when neither list is empty,
\* the fractions of each group sum to 1 when at least one column is left,
\* and there are none when no column is left.
C8_FractionsSumToOneWhenDefined ==
    HistRan =>
        /\ (control_clfs # <<>> => SumsToOne(control_fracs))
        /\ (disease_clfs # <<>> => SumsToOne(disease_fracs))
        /\ (control_clfs = <<>> => \A c \in DOMAIN control_fracs : IsNaN(control_fracs[c]))
        /\ (disease_clfs = <<>> => \A c \in DOMAIN disease_fracs : IsNaN(disease_fracs[c]))
        /\ (control_clfs # <<>> /\ disease_clfs # <<>>) => HistCompleted
        /\ HistCompleted =>
              /\ Len(control_fracs2) = Len(merged_db_types2)
              /\ Len(disease_fracs2) = Len(merged_db_types2)
              /\ (merged_db_types2 # <<>> =>
                     (SumsToOne(control_fracs2) /\ SumsToOne(disease_fracs2)))

\* A table of two columns of which the filter removes one.
C8_Witness ==
    /\ HistCompleted
    /\ Len(control_clfs) = 3
    /\ Len(merged_db_types) = 2
    /\ Len(merged_db_types2) = 1
    /\ control_fracs2 = <<<<2, 2>>>>

\* The labels X and Y of the scenario of C9.
LabelX == Osteocyte
LabelY == Brain

\* Control classifications [X, X, Y] and disease classifications [X, Y, Y].
C9_Scenario ==
    /\ HistCompleted
    /\ control_clfs = <<LabelX, LabelX, LabelY>>
    /\ disease_clfs = <<LabelX, LabelY, LabelY>>

\* The raw counts of the scenario: X control 2, disease 1; Y control 1,
\* disease 2.
C9_Counts ==
    \E x, y \in DOMAIN merged_db_types :
        /\ merged_db_types[x] = LabelX /\ merged_db_types[y] = LabelY
        /\ Len(merged_db_types) = 2
        /\ contingency_table[1][x] = 2 /\ contingency_table[2][x] = 1
        /\ contingency_table[1][y] = 1 /\ contingency_table[2][y] = 2

\* The binomial test of column X is run with k successes out of n trials.
C9_TestOfX(k, n) ==
    \E x \in DOMAIN merged_db_types :
        merged_db_types[x] = LabelX /\ binom_inputs[x] = <<k, n>>

\* C9 as stated: in the scenario the counts are as above and the test of
\* column X is run with 667 successes out of 1000 trials.
C9_Test667Of1000 == C9_Scenario => (C9_Counts /\ C9_TestOfX(667, 1000))

\* C9 amended: in the scenario the counts are as above and the test of
\* column X is run with floor(1000 * 2/3) = 666 successes out of
\* 666 + floor(1000 * 1/3) = 999 trials.
C9_Test666Of999 == C9_Scenario => (C9_Counts /\ C9_TestOfX(666, 999))

\* The scenario of C9 has run.
C9_Witness == C9_Scenario /\ Len(binom_inputs) = 2

\* C10: when exactly one coarse classification list is empty, the stage
\* completes without raising.
C10_EmptyGroupGuarded ==
    (HistRan /\ ((control_clfs = <<>>) # (disease_clfs = <<>>))) =>
        (pc # "error" /\ err = "none")

\* ---------------------------------------------------------------------
\* C11

\* The brain + cortex count and the bone marrow + osteocyte count recorded
\* for query row i
CountA(i) == brain_cortex_counts[i][2]
CountB(i) == brain_cortex_counts[i][3]

\* The enrichment selection has returned
Selected == pc = "done"

\* The counts of the example: 80, 65 and 71 for three queries
C11_Scenario ==
    /\ Len(query_model) = 3
    /\ index = 3
    /\ <<CountA(1), CountA(2), CountA(3)>> = <<80, 65, 71>>

\* C11: the count recorded for a row is the number of brain and cortex
\* labels among its 100 nearest neighbors, and when the selection has
\* returned, the returned list holds exactly the identifiers of the rows
\* whose brain + cortex count is greater than the threshold, each once and
\* in query order, whatever their other count; counts 80, 65, 71 select the
\* first and the third row.
C11_SelectsAboveThreshold ==
    /\ (RowDone /\ pc # "error") =>
           /\ Len(brain_cortex_counts) = index
           /\ brain_cortex_counts[index][1] = SampleId(index)
           /\ CountA(index) = Count(Window, Brain) + Count(Window, Cortex)
    /\ Selected =>
           /\ \A i \in 1..Len(query_model) :
                  In(SampleId(i), enriched) <=> CountA(i) > Threshold
           /\ \A a, b \in DOMAIN enriched : a < b => enriched[a] < enriched[b]
           /\ \A a \in DOMAIN enriched : enriched[a] \in 1..Len(query_model)
           /\ C11_Scenario => enriched = <<SampleId(1), SampleId(3)>>

\* The example has run: counts 80, 65, 71, the first and third row returned;
\* the second row is left out although its other count is not zero.
C11_Witness ==
    /\ Selected
    /\ C11_Scenario
    /\ enriched = <<SampleId(1), SampleId(3)>>
    /\ CountB(2) > 0

\* ---------------------------------------------------------------------
\* C12

\* The keys of a dict
KeysOf(d) == {d[j][1] : j \in DOMAIN d}

\* The group labels of the query rows 1..k, and the rows of a group
GroupsOfRows(k) == {query_labels[i] : i \in 1..k}
RowsOfGroup(k, g) == {i \in 1..k : query_labels[i] = g}

\* C12: when k query rows have been processed (k = index, from 0 to the
\* number of rows), overall_classifications has k entries and entry i is
\* the classification of the 100 nearest neighbors of row i;
\* classifications has one list per group label seen in rows 1..k, the
\* list of a group holds the classifications of the rows of that group in
\* row order, and the lengths of the lists sum to k;
\* avg_nearest_5_distances_dict has the same keys and its list for a group
\* is as long as the group's classification list.
C12_LoopBookkeeping ==
    LET k == index
    IN  /\ k \in 0..Len(query_model)
        /\ Len(overall_classifications) = k
        /\ \A i \in 1..k :
               \E idx \in argsort(dist_model[i]) :
                   overall_classifications[i] =
                       classify(Take(Gather(db_labels, idx), Top100))
        /\ KeysOf(classifications) = GroupsOfRows(k)
        /\ Len(classifications) = Cardinality(GroupsOfRows(k))
        /\ \A g \in GroupsOfRows(k) :
               Get(classifications, g) = ClfsOfRows(k, RowsOfGroup(k, g))
        /\ SeqSum([j \in DOMAIN classifications |-> Len(classifications[j][2])]) = k
        /\ KeysOf(avg_nearest_5_distances_dict) = GroupsOfRows(k)
        /\ Len(avg_nearest_5_distances_dict) = Cardinality(GroupsOfRows(k))
        /\ \A g \in GroupsOfRows(k) :
               Len(Get(avg_nearest_5_distances_dict, g)) = Len(Get(classifications, g))

\* Two rows have been processed and a third is left: the first two are of
\* one group and classified differently.
C12_Witness ==
    /\ pc = "loop"
    /\ index = 2
    /\ Len(query_model) = 3
    /\ query_labels[1] = query_labels[2]
    /\ query_labels[3] # query_labels[1]
    /\ overall_classifications[1] # overall_classifications[2]
    /\ Get(classifications, query_labels[1]) = overall_classifications

\* ---------------------------------------------------------------------
\* C13

\* Writing the report of a selected query has read past the end of its
\* list of nearest cells
ReportRaised == pc = "error" /\ err = "IndexError" /\ index = Len(query_model)

\* C13: a processed query row whose brain + cortex count is above the
\* threshold of 70 has a database of more than 70 rows and five recorded
\* nearest cell identifiers; the report of the selected queries never
\* raises IndexError, and every returned identifier has five recorded
\* nearest cell identifiers, whatever the number of database rows.
C13_SelectedHaveFiveNeighbors ==
    /\ \A i \in 1..Len(brain_cortex_counts) :
           CountA(i) > Threshold =>
               /\ Len(db_model) > Threshold
               /\ Has(top_5_nearest_cells, SampleId(i))
               /\ Len(Get(top_5_nearest_cells, SampleId(i))) >= Top5
    /\ ~ReportRaised
    /\ Selected =>
           \A a \in DOMAIN enriched :
               Len(Get(top_5_nearest_cells, enriched[a])) >= Top5

\* A query is selected on the smallest database that allows it, 71 rows,
\* and its report has been written.
C13_Witness ==
    /\ Selected
    /\ enriched # <<>>
    /\ Len(db_model) = Threshold + 1
    /\ \A a \in DOMAIN enriched : CountA(enriched[a]) = Threshold + 1
====
